---- MODULE Spec2Model ----
(***************************************************************************)
(* A model of the WASM launcher of src/wasm_lancher/src/lib.rs: the two    *)
(* constructors (VMLauncher::new, VMLauncher::new_with_external), run,     *)
(* its helpers (calc_gas, get_gas_left, ret_program) and the ProgramCode   *)
(* conversions.  The WASM engine (wasmer) is modelled by what the launcher *)
(* observes of it: the metering globals of the instance ("remaining        *)
(* points" and the "exhausted" flag), the export table, and the outcome of *)
(* one guest invocation, which is an input of every run.                   *)
(*                                                                         *)
(* The pure conversions (ProgramCode, the frame codec), the Memory Bridge  *)
(* of src/wasm_lancher/src/memory.rs and the wallet's Mnemonic are         *)
(* exercised by specifications of their own (SpecConv, SpecMem,            *)
(* SpecWallet) on variables of their own, and so are the address           *)
(* functions of the wallet's networks (SpecTron, SpecEth), which work on   *)
(* the value under conversion of SpecConv; SpecCtor follows a constructor  *)
(* call together with its arguments, and SpecModule a module from the      *)
(* launcher that compiles it to the launcher that loads its exported form. *)
(***************************************************************************)
EXTENDS Integers, Sequences, FiniteSets, TLC

\* ------------------------------------------------------------------ bounds

\* gas_limit and the points initially on a metered instance range over 0..MaxGas
MaxGas == 3
\* gas_priority ranges over 0..MaxPriority
MaxPriority == 2
\* the first byte of a guest frame ranges over 0..MaxByte (the tags 0..9 and one
\* byte that is no tag)
MaxByte == 10
\* a guest frame carries at most MaxFrameLen payload bytes
MaxFrameLen == 2
\* the opcode blob handed to a constructor has at most MaxOpcodeLen bytes
MaxOpcodeLen == 1
\* run is called at most MaxRuns times on one launcher
MaxRuns == 2
\* u64 is modelled as an unsigned word of WordBits bits (2^WordBits > MaxGas)
WordBits == 4
\* at most MaxApplied conversions are applied to one value
MaxApplied == 2
\* a payload handed to the frame codec has at most MaxPayloadLen bytes, or is
\* one of the long payloads of 255..MaxLongLen bytes
MaxPayloadLen == 2
MaxLongLen == 257
\* the guest's linear memory has MemSize bytes, at the addresses 0..MemSize-1
MemSize == 8
\* the Memory Bridge is called at most MaxBridgeCalls times on one instance
MaxBridgeCalls == 3
\* an entropy vector handed to Mnemonic::from_bytes has at most MaxEntropyLen bytes
MaxEntropyLen == 17
\* a payload handed to WalletTron::base58_encode has at most MaxAddressLen bytes
MaxAddressLen == 2
\* a string handed to WalletEth::validate_address has at most MaxAddressChars
\* characters
MaxAddressChars == 43

U64Modulus == 2 ^ WordBits

\* ------------------------------------------------------------------ state

VARIABLES
    launcher,         \* what the constructor returned: "absent", "live", or "err"
    ctor_err,         \* the Err a constructor returned, and which constructor
    created,          \* what the constructor had created when it returned
    gas_used,         \* VMLauncher.gas_used: the launcher was built with metering
    points,           \* the instance's global wasmer_metering_remaining_points
    exhausted,        \* the instance's global wasmer_metering_points_exhausted
    overflow_checks,  \* the build's overflow checks (on in debug, off in release)
    ctor,             \* the opcode blob the constructor was called with
    result,           \* what the last call of run produced
    last,             \* the last call of run: its arguments and local values
    runs,             \* number of calls of run so far
    args,             \* the flags and cost function the constructor was called with
    conv,             \* a value and the conversions applied to it so far
    inst,             \* the exports of the instance the Memory Bridge works on
    memory,           \* the bytes of the guest's linear memory
    live,             \* the regions the guest's allocator has handed out
    wlog,             \* the writes of the Memory Bridge that returned Ok
    bcall,            \* the last call of the Memory Bridge and what it returned
    bcalls,           \* number of calls of the Memory Bridge so far
    wallet,           \* an entropy vector and the Mnemonic made from it
    trip              \* a module on its way from one launcher to the next

launcher_vars == <<launcher, ctor_err, created, gas_used, points, exhausted,
                   overflow_checks, ctor, result, last, runs, args>>

conv_vars == <<conv>>

mem_vars == <<inst, memory, live, wlog, bcall, bcalls>>

wallet_vars == <<wallet>>

vars == <<launcher_vars, conv_vars, mem_vars, wallet_vars, trip>>

\* ------------------------------------------------------------------ ProgramCode

\* enum ProgramCode, in declaration order
ProgramCode == <<"Ok", "FnInvalidEntryPoint", "FnInvalidIndex", "FnInvalidArgs",
                 "UndefinedErrPtr", "UnknownError", "OutOfGas", "VmError",
                 "BorshEncodeInvalidArg", "BorshDecodeInvalidArg">>

ProgramCodes == {ProgramCode[i] : i \in 1..Len(ProgramCode)}

\* the variants in the order of the match arms of from_arr_u8 and from_i32
MatchOrder == <<"Ok", "FnInvalidEntryPoint", "FnInvalidIndex", "FnInvalidArgs",
                "UnknownError", "UndefinedErrPtr", "OutOfGas", "VmError",
                "BorshEncodeInvalidArg", "BorshDecodeInvalidArg">>

\* to_i32 numbering the variants in the order of the match arms
to_i32_match_order(c) == (CHOOSE i \in 1..Len(MatchOrder) : MatchOrder[i] = c) - 1

\* `c as i32`: the discriminant of a field-less enum is its declaration index
to_i32(c) == (CHOOSE i \in 1..Len(ProgramCode) : ProgramCode[i] = c) - 1

\* `n as u8`
as_u8(n) == n % 256

to_vec_u8(c) == <<as_u8(to_i32(c))>>

\* from_i32 with Ok where the source falls back to UnknownError
from_i32_ok_default(err) ==
    IF \E c \in ProgramCodes : err = to_i32(c)
    THEN CHOOSE c \in ProgramCodes : err = to_i32(c)
    ELSE "Ok"

\* the match arms are tried in the order of the source
from_i32(err) ==
    IF err = to_i32("Ok") THEN "Ok"
    ELSE IF err = to_i32("FnInvalidEntryPoint") THEN "FnInvalidEntryPoint"
    ELSE IF err = to_i32("FnInvalidIndex") THEN "FnInvalidIndex"
    ELSE IF err = to_i32("FnInvalidArgs") THEN "FnInvalidArgs"
    ELSE IF err = to_i32("UnknownError") THEN "UnknownError"
    ELSE IF err = to_i32("UndefinedErrPtr") THEN "UndefinedErrPtr"
    ELSE IF err = to_i32("OutOfGas") THEN "OutOfGas"
    ELSE IF err = to_i32("VmError") THEN "VmError"
    ELSE IF err = to_i32("BorshEncodeInvalidArg") THEN "BorshEncodeInvalidArg"
    ELSE IF err = to_i32("BorshDecodeInvalidArg") THEN "BorshDecodeInvalidArg"
    ELSE "UnknownError"

\* from_arr_u8 with the results of the UnknownError and UndefinedErrPtr arms
\* exchanged
from_arr_u8_exchanged(err) ==
    IF err = to_vec_u8("UnknownError") THEN "UndefinedErrPtr"
    ELSE IF err = to_vec_u8("UndefinedErrPtr") THEN "UnknownError"
    ELSE IF Len(err) = 1 THEN from_i32(err[1])
    ELSE "UnknownError"

\* the match arms are tried in the order of the source
from_arr_u8(err) ==
    IF err = to_vec_u8("Ok") THEN "Ok"
    ELSE IF err = to_vec_u8("FnInvalidEntryPoint") THEN "FnInvalidEntryPoint"
    ELSE IF err = to_vec_u8("FnInvalidIndex") THEN "FnInvalidIndex"
    ELSE IF err = to_vec_u8("FnInvalidArgs") THEN "FnInvalidArgs"
    ELSE IF err = to_vec_u8("UnknownError") THEN "UnknownError"
    ELSE IF err = to_vec_u8("UndefinedErrPtr") THEN "UndefinedErrPtr"
    ELSE IF err = to_vec_u8("OutOfGas") THEN "OutOfGas"
    ELSE IF err = to_vec_u8("VmError") THEN "VmError"
    ELSE IF err = to_vec_u8("BorshEncodeInvalidArg") THEN "BorshEncodeInvalidArg"
    ELSE IF err = to_vec_u8("BorshDecodeInvalidArg") THEN "BorshDecodeInvalidArg"
    ELSE "UnknownError"

\* ------------------------------------------------------------------ results

DEF_PROGRAM_RET_EMPTY == <<>>

\* VmRunResult::new, as the value run returns
VmRunResult(err, program_code, program_data, gas) ==
    [status |-> "returned", error |-> err, program_code |-> program_code,
     program_data |-> program_data, gas_used |-> gas]

\* run did not return: the thread panicked at `at`
Panicked(at) ==
    [status |-> "panicked", error |-> at, program_code |-> "UnknownError",
     program_data |-> <<>>, gas_used |-> 0]

NoResult ==
    [status |-> "none", error |-> "None", program_code |-> "UnknownError",
     program_data |-> <<>>, gas_used |-> 0]

\* ------------------------------------------------------------------ u64

\* a - b on u64: panics with overflow checks, wraps without
sub_u64(a, b) ==
    IF a >= b THEN [panic |-> FALSE, val |-> a - b]
    ELSE IF overflow_checks THEN [panic |-> TRUE, val |-> 0]
    ELSE [panic |-> FALSE, val |-> (a - b + U64Modulus) % U64Modulus]

\* a * b on u64: panics with overflow checks, wraps without
mul_u64(a, b) ==
    IF a * b < U64Modulus THEN [panic |-> FALSE, val |-> a * b]
    ELSE IF overflow_checks THEN [panic |-> TRUE, val |-> 0]
    ELSE [panic |-> FALSE, val |-> (a * b) % U64Modulus]

\* ------------------------------------------------------------------ engine

\* the function exports of the guest module the launcher was built from
ModuleExports == {"example"}

\* the entry names run is called with
FnNames == {"example", "foo"}

Bytes == 0..MaxByte

RECURSIVE SeqsOfLen(_, _)
SeqsOfLen(S, n) ==
    IF n = 0 THEN {<<>>}
    ELSE {Append(q, b) : q \in SeqsOfLen(S, n - 1), b \in S}

SeqsUpTo(S, n) == UNION {SeqsOfLen(S, k) : k \in 0..n}

\* the bytes that follow a frame's first byte (0x41, as in the spec's scenario S3)
PayloadBytes == {65}

\* the frames a guest returns: empty, or a first byte and a payload after it
Frames ==
    {<<>>} \cup {<<b>> \o d : b \in Bytes, d \in SeqsUpTo(PayloadBytes, MaxFrameLen - 1)}

\* What one invocation of the guest does, as the launcher observes it:
\*   consumed  metering points the guest used up before it stopped
\*   outcome   "ok" (returned), "trap" (an engine error other than metering),
\*             "exhausted" (the metering middleware trapped: points ran out)
\*   value     the boxed return: "empty", "f64" (not an i32), "i32" (a pointer)
\*   read      what VmMemory::mem_read_store gives at that pointer
\*   frame     the payload it reads when read = "Ok"
Behaviours ==
    [outcome : {"trap", "exhausted"}, value : {"empty"}, read : {"Ok"},
     frame : {<<>>}]
    \cup [outcome : {"ok"}, value : {"empty", "f64"}, read : {"Ok"}, frame : {<<>>}]
    \cup [outcome : {"ok"}, value : {"i32"},
          read : {"MemoryReadGetMemoryFail", "MemoryReadDataLenFail",
                  "MemoryReadDataFail"},
          frame : {<<>>}]
    \cup [outcome : {"ok"}, value : {"i32"}, read : {"Ok"}, frame : Frames]

\* The guests that can run on an instance: a metered instance with pts points
\* left lets the guest consume at most pts; an instance without metering counts
\* nothing and never traps for exhaustion.
Guests(metered, pts) ==
    IF metered
    THEN {[consumed |-> c, outcome |-> b.outcome, value |-> b.value,
           read |-> b.read, frame |-> b.frame] : c \in 0..pts, b \in Behaviours}
    ELSE {[consumed |-> 0, outcome |-> b.outcome, value |-> b.value,
           read |-> b.read, frame |-> b.frame] :
               b \in {x \in Behaviours : x.outcome # "exhausted"}}

\* GasMetering::get_left (core/gas.rs): the points left on the instance, 0 once
\* the metering middleware has flagged exhaustion
GasMetering_get_left(pts, exh) == IF exh THEN 0 ELSE pts

\* ------------------------------------------------------------------ run

\* calc_gas with the scaling inverted
calc_gas_mul(gas_priority, gas_limit) == gas_limit * gas_priority

calc_gas(gas_priority, gas_limit) == gas_limit \div gas_priority

get_gas_left(self_gas_used, pts, exh) ==
    IF self_gas_used THEN GasMetering_get_left(pts, exh) ELSE 0

\* lines 177-181: the limit run computes (and installs when gas_priority != 0)
set_gas_limit(gas_priority, gas_limit) ==
    IF gas_priority # 0 THEN calc_gas(gas_priority, gas_limit) ELSE 0

\* wasmer_middlewares::metering::set_remaining_points is called (line 180) when
\* gas_priority != 0.  It panics on an instance that was not compiled with the
\* metering middleware (it `expect`s the metering globals among the exports).
set_points_panics(self_gas_used, gas_priority) ==
    gas_priority # 0 /\ ~self_gas_used

\* lines 185-192
export_fail_result ==
    VmRunResult("FunctionExportFail", "FnInvalidEntryPoint", DEF_PROGRAM_RET_EMPTY, 0)

\* call_err_result reporting the scaled limit when the gas ran out
call_err_result_scaled(gas_limit, gas_limit_calc, u64_gas_left) ==
    IF u64_gas_left = 0
    THEN VmRunResult("FunctionCallOutOfGas", "OutOfGas", DEF_PROGRAM_RET_EMPTY,
                     gas_limit_calc)
    ELSE LET d == sub_u64(gas_limit_calc, u64_gas_left)
         IN  IF d.panic THEN Panicked("attempt to subtract with overflow")
             ELSE VmRunResult("FunctionCallFail", "UnknownError",
                              DEF_PROGRAM_RET_EMPTY, d.val)

\* lines 196-216: the invocation returned Err
call_err_result(gas_limit, gas_limit_calc, u64_gas_left) ==
    IF u64_gas_left = 0
    THEN VmRunResult("FunctionCallOutOfGas", "OutOfGas", DEF_PROGRAM_RET_EMPTY,
                     gas_limit)
    ELSE LET d == sub_u64(gas_limit_calc, u64_gas_left)
         IN  IF d.panic THEN Panicked("attempt to subtract with overflow")
             ELSE VmRunResult("FunctionCallFail", "UnknownError",
                              DEF_PROGRAM_RET_EMPTY, d.val)

\* ret_program handing the frame of a non-Ok code back as data
ret_program_keeps_data(value, read, frame, gas) ==
    IF value = "empty"
    THEN VmRunResult("None", "UnknownError", DEF_PROGRAM_RET_EMPTY, gas)
    ELSE IF value # "i32"
    THEN VmRunResult("None", "UndefinedErrPtr", DEF_PROGRAM_RET_EMPTY, gas)
    ELSE IF read # "Ok"
    THEN VmRunResult("RetProgramMemReadFail", "UndefinedErrPtr",
                     DEF_PROGRAM_RET_EMPTY, gas)
    ELSE IF Len(frame) < 1
    THEN Panicked("range end index 1 out of range for slice of length 0")
    ELSE IF from_arr_u8(SubSeq(frame, 1, 1)) = "Ok"
    THEN VmRunResult("None", "Ok", SubSeq(frame, 2, Len(frame)), gas)
    ELSE VmRunResult("None", from_arr_u8(frame), frame, gas)

\* lines 250-308
ret_program(value, read, frame, gas) ==
    IF value = "empty"
    THEN VmRunResult("None", "UnknownError", DEF_PROGRAM_RET_EMPTY, gas)
    ELSE IF value # "i32"
    THEN VmRunResult("None", "UndefinedErrPtr", DEF_PROGRAM_RET_EMPTY, gas)
    ELSE IF read # "Ok"
    THEN VmRunResult("RetProgramMemReadFail", "UndefinedErrPtr",
                     DEF_PROGRAM_RET_EMPTY, gas)
    ELSE IF Len(frame) < 1
    THEN Panicked("range end index 1 out of range for slice of length 0")
    ELSE IF from_arr_u8(SubSeq(frame, 1, 1)) = "Ok"
    THEN VmRunResult("None", "Ok", SubSeq(frame, 2, Len(frame)), gas)
    ELSE VmRunResult("None", from_arr_u8(frame), DEF_PROGRAM_RET_EMPTY, gas)

\* call_ok_result without the multiplication by gas_priority
call_ok_result_unscaled(g, gas_priority, gas_limit_calc, gas_left) ==
    LET d == sub_u64(gas_limit_calc, gas_left)
    IN  IF d.panic THEN Panicked("attempt to subtract with overflow")
        ELSE ret_program(g.value, g.read, g.frame, d.val)

\* lines 218-227: the invocation returned Ok
call_ok_result(g, gas_priority, gas_limit_calc, gas_left) ==
    LET d == sub_u64(gas_limit_calc, gas_left)
        m == mul_u64(d.val, gas_priority)
    IN  IF d.panic THEN Panicked("attempt to subtract with overflow")
        ELSE IF m.panic THEN Panicked("attempt to multiply with overflow")
        ELSE ret_program(g.value, g.read, g.frame, m.val)

\* no guest has been invoked
NoGuest ==
    [consumed |-> 0, outcome |-> "none", value |-> "empty", read |-> "Ok",
     frame |-> <<>>]

NoRun ==
    [gas_priority |-> 0, gas_limit |-> 0, fn_name |-> "", gas_limit_calc |-> 0,
     installed |-> FALSE, start_points |-> 0, start_exhausted |-> FALSE,
     invoked |-> FALSE, call_err |-> FALSE, gas_left |-> 0, prev_oog |-> FALSE,
     guest |-> NoGuest]

\* The record of a call of run that has not invoked the guest (yet).  installed:
\* set_remaining_points has put gas_limit_calc on the instance (and cleared its
\* exhausted flag); start_points, start_exhausted: the metering globals when the
\* guest is invoked; prev_oog: the call before this one installed a limit and was
\* reported OutOfGas; guest: what the guest did when it was invoked.
Called(gas_priority, gas_limit, fn_name) ==
    [gas_priority |-> gas_priority, gas_limit |-> gas_limit, fn_name |-> fn_name,
     gas_limit_calc |-> set_gas_limit(gas_priority, gas_limit),
     installed |-> (gas_priority # 0 /\ gas_used),
     start_points |-> IF gas_priority # 0 /\ gas_used
                      THEN set_gas_limit(gas_priority, gas_limit) ELSE points,
     start_exhausted |-> IF gas_priority # 0 /\ gas_used THEN FALSE ELSE exhausted,
     invoked |-> FALSE, call_err |-> FALSE, gas_left |-> 0,
     prev_oog |-> (last.installed /\ result.status = "returned"
                   /\ result.program_code = "OutOfGas"),
     guest |-> NoGuest]

\* run, lines 176-181: set_remaining_points panics
run_panic(gas_priority, gas_limit, fn_name) ==
    /\ set_points_panics(gas_used, gas_priority)
    /\ result' = Panicked("set_remaining_points: no metering globals on the instance")
    /\ launcher' = "panicked"
    /\ last' = Called(gas_priority, gas_limit, fn_name)
    /\ UNCHANGED <<points, exhausted>>

\* run, lines 176-192: the entry is not exported
run_missing(gas_priority, gas_limit, fn_name) ==
    /\ ~set_points_panics(gas_used, gas_priority)
    /\ fn_name \notin ModuleExports
    /\ result' = export_fail_result
    /\ last' = Called(gas_priority, gas_limit, fn_name)
    /\ points' = last'.start_points
    /\ exhausted' = last'.start_exhausted
    /\ UNCHANGED launcher

\* run, lines 176-228: the entry is invoked, and the guest behaves as g
run_call(gas_priority, gas_limit, fn_name, g) ==
    /\ ~set_points_panics(gas_used, gas_priority)
    /\ fn_name \in ModuleExports
    /\ LET c == Called(gas_priority, gas_limit, fn_name)
           pts2 == c.start_points - g.consumed
           exh2 == c.start_exhausted \/ g.outcome = "exhausted"
           left == get_gas_left(gas_used, pts2, exh2)
           r == IF g.outcome # "ok"
                THEN call_err_result(gas_limit, c.gas_limit_calc, left)
                ELSE call_ok_result(g, gas_priority, c.gas_limit_calc, left)
       IN  /\ result' = r
           /\ last' = [c EXCEPT !.invoked = TRUE, !.call_err = (g.outcome # "ok"),
                                !.gas_left = left, !.guest = g]
           /\ points' = pts2
           /\ exhausted' = exh2
           /\ launcher' = IF r.status = "panicked" THEN "panicked" ELSE launcher

\* VMLauncher::run(gas_priority, gas_limit, fn_name)
run(gas_priority, gas_limit, fn_name) ==
    /\ launcher = "live"
    /\ runs < MaxRuns
    /\ \/ run_panic(gas_priority, gas_limit, fn_name)
       \/ run_missing(gas_priority, gas_limit, fn_name)
       \/ \E g \in Guests(gas_used, Called(gas_priority, gas_limit, fn_name).start_points) :
            run_call(gas_priority, gas_limit, fn_name, g)
    /\ runs' = runs + 1
    /\ UNCHANGED <<ctor_err, created, gas_used, overflow_checks, ctor, args, trip>>
    /\ UNCHANGED <<conv_vars, mem_vars, wallet_vars>>

Run ==
    \E gas_priority \in 0..MaxPriority, gas_limit \in 0..MaxGas, fn_name \in FnNames :
        run(gas_priority, gas_limit, fn_name)

\* ------------------------------------------------------------------ constructors

Opcodes == SeqsUpTo({0}, MaxOpcodeLen)

\* What the parts of the engine a constructor drives do (core/gas.rs,
\* core/module.rs, core/instance.rs and wasmer):
\*   cfg          GasMetering::create_cfg returns ("ok") or does not ("panic")
\*   module       VmModule::import / import_module_opcode: "ok" or "fail"
\*   instance     VmInstance::new: "ok" or "fail"
\*   init_points  the points the metering middleware starts an instance with
Envs == [cfg : {"ok", "panic"}, module : {"ok", "fail"}, instance : {"ok", "fail"},
         init_points : 0..MaxGas]

NoErr == [fn |-> "", err |-> "None"]

Built(l, err, made, metered, pts) ==
    [launcher |-> l, err |-> err, created |-> made, gas_used |-> metered,
     points |-> pts]

\* lines 60-106 and 126-172, the same in both constructors: gas, module, instance
build(opcode_module_used, gas_metering_used, env) ==
    IF gas_metering_used /\ env.cfg = "panic"
    THEN Built("panicked", "None", {}, FALSE, 0)
    ELSE IF env.module = "fail"
    THEN Built("err",
               IF opcode_module_used THEN "NewModuleInitEncodedFail"
               ELSE "NewModuleInitBinaryFail",
               {"store"}, FALSE, 0)
    ELSE IF env.instance = "fail"
    THEN Built("err", "NewInstanceInitFail", {"store", "module"}, FALSE, 0)
    ELSE Built("live", "None", {"store", "module", "instance"}, gas_metering_used,
               IF gas_metering_used THEN env.init_points ELSE 0)

\* new without the check of the opcode blob
new_unchecked(opcode, opcode_module_used, gas_metering_used, gas_consumption, env) ==
    build(opcode_module_used, gas_metering_used, env)

\* VMLauncher::new
new(opcode, opcode_module_used, gas_metering_used, gas_consumption, env) ==
    IF opcode = <<>>
    THEN Built("err", "NewOpcodeBinaryEmpty", {}, FALSE, 0)
    ELSE build(opcode_module_used, gas_metering_used, env)

\* VMLauncher::new_with_external
new_with_external(opcode, opcode_module_used, gas_metering_used, gas_consumption, env) ==
    IF opcode = <<>>
    THEN Built("err", "NewOpcodeBinaryEmpty", {}, FALSE, 0)
    ELSE build(opcode_module_used, gas_metering_used, env)

Construct(fn, b, opcode, opcode_module_used, gas_metering_used, gas_consumption) ==
    /\ launcher = "absent"
    /\ launcher' = b.launcher
    /\ ctor_err' = IF b.launcher = "err" THEN [fn |-> fn, err |-> b.err] ELSE NoErr
    /\ created' = b.created
    /\ gas_used' = b.gas_used
    /\ points' = b.points
    /\ ctor' = opcode
    /\ UNCHANGED <<exhausted, overflow_checks, result, last, runs>>
    /\ UNCHANGED <<conv_vars, mem_vars, wallet_vars>>

\* an env that differs from another only in what the constructor never reaches
\* or never reads is not a different call
Relevant(opcode, gas_metering_used, gas_consumption, env) ==
    /\ env.cfg = "panic" => gas_metering_used /\ gas_consumption = "None"
    /\ ~gas_metering_used => env.init_points = 0

New ==
    \E opcode \in Opcodes, opcode_module_used \in BOOLEAN,
       gas_metering_used \in BOOLEAN, gas_consumption \in {"Some", "None"},
       env \in Envs :
        /\ Relevant(opcode, gas_metering_used, gas_consumption, env)
        /\ Construct("new",
                     new(opcode, opcode_module_used, gas_metering_used,
                         gas_consumption, env),
                     opcode, opcode_module_used, gas_metering_used, gas_consumption)
        /\ UNCHANGED <<args, trip>>

NewWithExternal ==
    \E opcode \in Opcodes, opcode_module_used \in BOOLEAN,
       gas_metering_used \in BOOLEAN, gas_consumption \in {"Some", "None"},
       env \in Envs :
        /\ Relevant(opcode, gas_metering_used, gas_consumption, env)
        /\ Construct("new_with_external",
                     new_with_external(opcode, opcode_module_used,
                                       gas_metering_used, gas_consumption, env),
                     opcode, opcode_module_used, gas_metering_used, gas_consumption)
        /\ UNCHANGED <<args, trip>>

\* ------------------------------------------------------------------ specification


\* no constructor has been called
NoArgs ==
    [opcode_module_used |-> FALSE, gas_metering_used |-> FALSE,
     gas_consumption |-> "None"]

\* no value is under conversion
NoConv == [origin |-> <<>>, val |-> <<>>, applied |-> <<>>]

\* no launcher has been constructed, in a build with or without overflow checks
NewLauncher ==
    /\ launcher = "absent"
    /\ ctor_err = NoErr
    /\ created = {}
    /\ gas_used = FALSE
    /\ points = 0
    /\ exhausted = FALSE
    /\ overflow_checks \in BOOLEAN
    /\ ctor = <<>>
    /\ result = NoResult
    /\ last = NoRun
    /\ runs = 0
    /\ args = NoArgs

\* the launcher is not in use
NoLauncher == NewLauncher /\ overflow_checks

\* no call of the Memory Bridge
NoBridgeCall ==
    [op |-> "", data |-> <<>>, ptr |-> 0, size |-> 0, alloc |-> "",
     alloc_ptr |-> 0, ok |-> FALSE, err |-> "None", out |-> <<>>]

\* the Memory Bridge is not in use
NoBridge ==
    /\ inst = [mem_alloc |-> FALSE, memory |-> FALSE]
    /\ memory = <<>>
    /\ live = {}
    /\ wlog = <<>>
    /\ bcall = NoBridgeCall
    /\ bcalls = 0

\* no Mnemonic
NoMnemonic == [ok |-> FALSE, err |-> "None", entropy |-> <<>>]

\* the wallet is not in use
NoWallet ==
    wallet = [entropy |-> <<>>, made |-> FALSE, mnemonic |-> NoMnemonic,
              read |-> FALSE, bytes |-> <<>>]

\* no module is under way
NoTrip ==
    [program |-> NoGuest, init_points |-> 0, call |-> <<>>, first |-> NoResult,
     exported |-> "", blob |-> <<>>, second |-> FALSE]

Init == NewLauncher /\ conv = NoConv /\ NoBridge /\ NoWallet /\ trip = NoTrip

Next == New \/ NewWithExternal \/ Run

Spec == Init /\ [][Next]_vars

\* ------------------------------------------------------------------ SpecCtor

\* VMLauncher::new, with the flags and the cost function of the call kept in args
CtorNew ==
    \E opcode \in Opcodes, opcode_module_used \in BOOLEAN,
       gas_metering_used \in BOOLEAN, gas_consumption \in {"Some", "None"},
       env \in Envs :
        /\ Relevant(opcode, gas_metering_used, gas_consumption, env)
        /\ Construct("new",
                     new(opcode, opcode_module_used, gas_metering_used,
                         gas_consumption, env),
                     opcode, opcode_module_used, gas_metering_used, gas_consumption)
        /\ args' = [opcode_module_used |-> opcode_module_used,
                    gas_metering_used |-> gas_metering_used,
                    gas_consumption |-> gas_consumption]
        /\ UNCHANGED trip

\* VMLauncher::new_with_external, with its flags and cost function kept in args
CtorNewWithExternal ==
    \E opcode \in Opcodes, opcode_module_used \in BOOLEAN,
       gas_metering_used \in BOOLEAN, gas_consumption \in {"Some", "None"},
       env \in Envs :
        /\ Relevant(opcode, gas_metering_used, gas_consumption, env)
        /\ Construct("new_with_external",
                     new_with_external(opcode, opcode_module_used,
                                       gas_metering_used, gas_consumption, env),
                     opcode, opcode_module_used, gas_metering_used, gas_consumption)
        /\ args' = [opcode_module_used |-> opcode_module_used,
                    gas_metering_used |-> gas_metering_used,
                    gas_consumption |-> gas_consumption]
        /\ UNCHANGED trip

NextCtor == CtorNew \/ CtorNewWithExternal

SpecCtor == Init /\ [][NextCtor]_vars

\* ------------------------------------------------------------------ SpecModule

\* the raw WASM bytes the first launcher is built from
WasmBytes == <<0>>

\* VmModule::export_module_opcode (core/module.rs): it fails, or gives the
\* engine's byte form of the module, which depends on the configuration of the
\* engine that compiled it (with the metering middleware or without)
VmModule_export_module_opcode(export, metered) ==
    IF export = "fail" THEN [ok |-> FALSE, bytes |-> <<>>]
    ELSE [ok |-> TRUE, bytes |-> IF metered THEN <<2>> ELSE <<1>>]

\* VmModule::import_module_opcode (core/module.rs): the bytes load when they are
\* the byte form this host exported under the same engine configuration
VmModule_import_module_opcode(opcode, metered) ==
    IF opcode = VmModule_export_module_opcode("ok", metered).bytes THEN "ok"
    ELSE "fail"

\* get_module_opcode returning the bytes the launcher was built from
get_module_opcode_built_from(exported) ==
    IF ~exported.ok THEN [ok |-> FALSE, err |-> "ExportModuleFail", bytes |-> <<>>]
    ELSE [ok |-> TRUE, err |-> "None", bytes |-> ctor]

\* VMLauncher::get_module_opcode
get_module_opcode(exported) ==
    IF ~exported.ok THEN [ok |-> FALSE, err |-> "ExportModuleFail", bytes |-> <<>>]
    ELSE [ok |-> TRUE, err |-> "None", bytes |-> exported.bytes]

\* What the entry of a module does when it is left to finish: the points it
\* takes (on an engine that counts them) and how it ends.
Programs(metered) ==
    {[consumed |-> c, outcome |-> b.outcome, value |-> b.value, read |-> b.read,
      frame |-> b.frame] :
         c \in (IF metered THEN 0..MaxGas ELSE {0}),
         b \in {x \in Behaviours : x.outcome # "exhausted"}}

\* the guest a program is on an instance with pts points left: the metering
\* middleware stops it when the points do not suffice
GuestOf(program, metered, pts) ==
    IF metered /\ program.consumed > pts
    THEN [consumed |-> pts, outcome |-> "exhausted", value |-> "empty",
          read |-> "Ok", frame |-> <<>>]
    ELSE program

\* VMLauncher::new on the raw bytes of a module whose entry does program
ModNew ==
    /\ trip = NoTrip
    /\ \E gas_metering_used \in BOOLEAN, gas_consumption \in {"Some", "None"},
          env \in Envs :
         \E program \in Programs(gas_metering_used) :
            LET b == new(WasmBytes, FALSE, gas_metering_used, gas_consumption, env)
            IN  /\ Relevant(WasmBytes, gas_metering_used, gas_consumption, env)
                /\ b.launcher = "live"
                /\ Construct("new", b, WasmBytes, FALSE, gas_metering_used,
                             gas_consumption)
                /\ args' = [opcode_module_used |-> FALSE,
                            gas_metering_used |-> gas_metering_used,
                            gas_consumption |-> gas_consumption]
                /\ trip' = [NoTrip EXCEPT !.program = program,
                                          !.init_points = b.points]

\* the first call of run on a launcher, with the guest g
RunOn(gas_priority, gas_limit, fn_name, g) ==
    /\ launcher = "live"
    /\ runs = 0
    /\ \/ run_panic(gas_priority, gas_limit, fn_name)
       \/ run_missing(gas_priority, gas_limit, fn_name)
       \/ run_call(gas_priority, gas_limit, fn_name, g)
    /\ runs' = runs + 1
    /\ UNCHANGED <<ctor_err, created, gas_used, overflow_checks, ctor, args>>
    /\ UNCHANGED <<conv_vars, mem_vars, wallet_vars>>

\* run on the first launcher
ModRun ==
    /\ trip # NoTrip
    /\ ~trip.second
    /\ \E gas_priority \in 0..MaxPriority, gas_limit \in 0..MaxGas,
          fn_name \in FnNames :
         /\ RunOn(gas_priority, gas_limit, fn_name,
                  GuestOf(trip.program, gas_used,
                          Called(gas_priority, gas_limit, fn_name).start_points))
         /\ trip' = [trip EXCEPT !.call = <<gas_priority, gas_limit, fn_name>>,
                                 !.first = result']

\* get_module_opcode on the first launcher
ModExport ==
    /\ launcher = "live"
    /\ trip # NoTrip
    /\ ~trip.second
    /\ trip.exported = ""
    /\ \E export \in {"ok", "fail"} :
         LET r == get_module_opcode(VmModule_export_module_opcode(export, gas_used))
         IN  trip' = [trip EXCEPT !.exported = IF r.ok THEN "Ok" ELSE r.err,
                                  !.blob = r.bytes]
    /\ UNCHANGED <<launcher_vars, conv_vars, mem_vars, wallet_vars>>

\* the first launcher is dropped
ModDrop ==
    /\ launcher = "live"
    /\ ~trip.second
    /\ trip.call # <<>>
    /\ trip.blob # <<>>
    /\ launcher' = "absent"
    /\ ctor_err' = NoErr
    /\ created' = {}
    /\ gas_used' = FALSE
    /\ points' = 0
    /\ exhausted' = FALSE
    /\ ctor' = <<>>
    /\ result' = NoResult
    /\ last' = NoRun
    /\ runs' = 0
    /\ UNCHANGED <<overflow_checks, args, trip, conv_vars, mem_vars, wallet_vars>>

\* VMLauncher::new on the exported bytes, with the flag opcode_module_used set
\* and the metering arguments of the first launcher
ModLoad ==
    /\ launcher = "absent"
    /\ trip.blob # <<>>
    /\ ~trip.second
    /\ LET env == [cfg |-> "ok",
                   module |-> VmModule_import_module_opcode(trip.blob,
                                                            args.gas_metering_used),
                   instance |-> "ok",
                   init_points |-> trip.init_points]
       IN  Construct("new",
                     new(trip.blob, TRUE, args.gas_metering_used,
                         args.gas_consumption, env),
                     trip.blob, TRUE, args.gas_metering_used, args.gas_consumption)
    /\ args' = [args EXCEPT !.opcode_module_used = TRUE]
    /\ trip' = [trip EXCEPT !.second = TRUE]

\* run on the second launcher, with the arguments of the run on the first
ModRerun ==
    /\ trip.second
    /\ RunOn(trip.call[1], trip.call[2], trip.call[3],
             GuestOf(trip.program, gas_used,
                     Called(trip.call[1], trip.call[2], trip.call[3]).start_points))
    /\ UNCHANGED trip

NextModule == ModNew \/ ModRun \/ ModExport \/ ModDrop \/ ModLoad \/ ModRerun

SpecModule == Init /\ [][NextModule]_vars

\* ------------------------------------------------------------------ frame codec

\* the bytes of a payload
DataBytes == {65, 66}

\* a payload of n bytes
LongPayload(n) == [i \in 1..n |-> 65]

Payloads ==
    SeqsUpTo(DataBytes, MaxPayloadLen) \cup {LongPayload(n) : n \in 255..MaxLongLen}

\* Memory::encode with the length big-endian
Memory_encode_be(data) ==
    << (Len(data) \div 16777216) % 256, (Len(data) \div 65536) % 256,
       (Len(data) \div 256) % 256, Len(data) % 256 >> \o data

\* Memory::encode (crate memory): the length of data as a little-endian u32,
\* then data
Memory_encode(data) ==
    << Len(data) % 256, (Len(data) \div 256) % 256,
       (Len(data) \div 65536) % 256, (Len(data) \div 16777216) % 256 >> \o data

\* Memory::decode_len (crate memory): the little-endian u32 in the four bytes
Memory_decode_len(buffer) ==
    buffer[1] + 256 * buffer[2] + 65536 * buffer[3] + 16777216 * buffer[4]

\* ------------------------------------------------------------------ SpecConv

\* a value under conversion
Val(kind, v) == [kind |-> kind, v |-> v]

\* the i32 values from_i32 is tried on
I32s == (0 - 1)..MaxByte

ConvInputs ==
    {Val("code", c) : c \in ProgramCodes}
    \cup {Val("bytes", b) : b \in SeqsUpTo(Bytes, 2)}
    \cup {Val("i32", n) : n \in I32s}
    \cup {Val("payload", d) : d \in Payloads}

\* apply the conversion fn, which takes a value of kind from and gives out
Apply(fn, from, out) ==
    /\ conv # NoConv
    /\ Len(conv.applied) < MaxApplied
    /\ conv.val.kind = from
    /\ conv' = [conv EXCEPT !.val = out, !.applied = Append(@, fn)]
    /\ UNCHANGED <<launcher_vars, mem_vars, wallet_vars, trip>>

ToVecU8 == Apply("to_vec_u8", "code", Val("bytes", to_vec_u8(conv.val.v)))

FromArrU8 == Apply("from_arr_u8", "bytes", Val("code", from_arr_u8(conv.val.v)))

ToI32 == Apply("to_i32", "code", Val("i32", to_i32(conv.val.v)))

FromI32 == Apply("from_i32", "i32", Val("code", from_i32(conv.val.v)))

Encode == Apply("encode", "payload", Val("buffer", Memory_encode(conv.val.v)))

\* mem_read: decode_len is applied to the first four bytes of a frame
DecodeLen ==
    Apply("decode_len", "buffer",
          Val("len", Memory_decode_len(SubSeq(conv.val.v, 1, 4))))

InitConv ==
    /\ NoLauncher
    /\ NoBridge
    /\ NoWallet
    /\ trip = NoTrip
    /\ conv \in {[origin |-> x, val |-> x, applied |-> <<>>] : x \in ConvInputs}

NextConv == ToVecU8 \/ FromArrU8 \/ ToI32 \/ FromI32 \/ Encode \/ DecodeLen

SpecConv == InitConv /\ [][NextConv]_vars

\* ------------------------------------------------------------------ Memory Bridge

\* the payloads the Memory Bridge is asked to write
BridgePayloads == SeqsUpTo(DataBytes, MaxPayloadLen)

\* the bytes at the addresses ptr .. ptr + n - 1 are inside the linear memory
InBounds(ptr, n) == ptr + n <= MemSize

\* the bytes a region of size bytes takes: an allocation of no bytes has an
\* address of its own
Footprint(size) == IF size = 0 THEN 1 ELSE size

\* the region of size bytes at ptr shares no byte with a live region
Free(ptr, size) ==
    \A r \in live :
        ptr + Footprint(size) <= r.ptr \/ r.ptr + Footprint(r.size) <= ptr

\* What the guest export mem_alloc(size) answers: it traps, returns a value that
\* is no i32, returns the null pointer, or returns a region of size bytes of the
\* linear memory that shares no byte with a region it has handed out before.
AllocAnswers(size) ==
    {[kind |-> k, ptr |-> 0] : k \in {"trap", "f64", "i32"}}
    \cup {[kind |-> "i32", ptr |-> q] :
              q \in {x \in 1..(MemSize - 1) :
                        InBounds(x, Footprint(size)) /\ Free(x, size)}}

\* the outcome of a step of the bridge: Ok(ptr) or Err(err), and the memory and
\* the live regions after it
BridgeOk(ptr, mem, regions) ==
    [ok |-> TRUE, err |-> "None", ptr |-> ptr, mem |-> mem, live |-> regions]

BridgeErr(err, mem, regions) ==
    [ok |-> FALSE, err |-> err, ptr |-> 0, mem |-> mem, live |-> regions]

\* VmMemory::mem_alloc_store and mem_alloc_store_mut: the same body
mem_alloc_store(size, a) ==
    IF ~inst.mem_alloc THEN BridgeErr("MemoryAllocGetFnFail", memory, live)
    ELSE IF a.kind = "trap" THEN BridgeErr("MemoryAllocCallFnFail", memory, live)
    ELSE IF a.kind # "i32" THEN BridgeErr("MemoryAllocPtrEmpty", memory, live)
    ELSE BridgeOk(a.ptr, memory,
                  IF a.ptr = 0 THEN live
                  ELSE live \cup {[ptr |-> a.ptr, size |-> size]})

\* MemoryView::write: all of buffer at ptr, or nothing when it does not fit
view_write(mem, ptr, buffer) ==
    [i \in 1..MemSize |->
        IF i - 1 >= ptr /\ i - 1 < ptr + Len(buffer) THEN buffer[i - ptr]
        ELSE mem[i]]

\* VmMemory::mem_write
mem_write(mem, regions, ptr, data) ==
    LET buffer == Memory_encode(data)
    IN  IF ~InBounds(ptr, Len(buffer))
        THEN BridgeErr("MemoryWriteFail", mem, regions)
        ELSE BridgeOk(ptr, view_write(mem, ptr, buffer), regions)

\* VmMemory::mem_write_store: mem_alloc is asked for data.len() bytes
mem_write_store(data, a) ==
    LET p == mem_alloc_store(Len(data), a)
    IN  IF ~p.ok THEN p
        ELSE IF ~inst.memory THEN BridgeErr("MemoryWriteLoadFail", p.mem, p.live)
        ELSE mem_write(p.mem, p.live, p.ptr, data)

\* VmMemory::mem_write_mut_store: mem_alloc is asked for val.len() + 4 bytes
mem_write_mut_store(val, a) ==
    LET p == mem_alloc_store(Len(val) + 4, a)
    IN  IF ~p.ok THEN p
        ELSE IF ~inst.memory THEN BridgeErr("MemoryWriteLoadFail", p.mem, p.live)
        ELSE mem_write(p.mem, p.live, p.ptr, val)

\* the outcome of a read: Ok(out) or Err(err)
ReadOk(out) == [ok |-> TRUE, err |-> "None", out |-> out]

ReadErr(err) == [ok |-> FALSE, err |-> err, out |-> <<>>]

\* mem_read returning the bytes of the body that are inside the linear memory
mem_read_partial(mem, ptr) ==
    IF ~InBounds(ptr, 4) THEN ReadErr("MemoryReadDataLenFail")
    ELSE LET len == Memory_decode_len(SubSeq(mem, ptr + 1, ptr + 4))
         IN  IF ~InBounds(ptr + 4, len) THEN ReadOk(SubSeq(mem, ptr + 5, MemSize))
             ELSE ReadOk(SubSeq(mem, ptr + 5, ptr + 4 + len))

\* VmMemory::mem_read
mem_read(mem, ptr) ==
    IF ~InBounds(ptr, 4) THEN ReadErr("MemoryReadDataLenFail")
    ELSE LET len == Memory_decode_len(SubSeq(mem, ptr + 1, ptr + 4))
         IN  IF ~InBounds(ptr + 4, len) THEN ReadErr("MemoryReadDataFail")
             ELSE ReadOk(SubSeq(mem, ptr + 5, ptr + 4 + len))

\* VmMemory::mem_read_store
mem_read_store(ptr) ==
    IF ~inst.memory THEN ReadErr("MemoryReadGetMemoryFail")
    ELSE mem_read(memory, ptr)

\* ------------------------------------------------------------------ SpecMem

\* a write of the bridge: w is what it returned, size what it asked mem_alloc
\* for, a what mem_alloc answered (kept in alloc and alloc_ptr when it was called)
BridgeWrite(op, data, size, a, w) ==
    /\ bcalls < MaxBridgeCalls
    /\ memory' = w.mem
    /\ live' = w.live
    /\ wlog' = IF w.ok
               THEN Append(wlog, [op |-> op, data |-> data, ptr |-> w.ptr,
                                  region |-> a.ptr # 0])
               ELSE wlog
    /\ bcall' = [op |-> op, data |-> data, ptr |-> w.ptr, size |-> size,
                 alloc |-> IF inst.mem_alloc THEN a.kind ELSE "",
                 alloc_ptr |-> IF inst.mem_alloc THEN a.ptr ELSE 0,
                 ok |-> w.ok, err |-> w.err, out |-> <<>>]
    /\ bcalls' = bcalls + 1
    /\ UNCHANGED <<inst, launcher_vars, conv_vars, wallet_vars, trip>>

MemWriteStore ==
    \E data \in BridgePayloads :
        \E a \in AllocAnswers(Len(data)) :
            BridgeWrite("mem_write_store", data, Len(data), a,
                        mem_write_store(data, a))

MemWriteMutStore ==
    \E val \in BridgePayloads :
        \E a \in AllocAnswers(Len(val) + 4) :
            BridgeWrite("mem_write_mut_store", val, Len(val) + 4, a,
                        mem_write_mut_store(val, a))

MemReadStore ==
    \E ptr \in 0..MemSize :
        LET r == mem_read_store(ptr)
        IN  /\ bcalls < MaxBridgeCalls
            /\ bcall' = [op |-> "mem_read_store", data |-> <<>>, ptr |-> ptr,
                         size |-> 0, alloc |-> "", alloc_ptr |-> 0,
                         ok |-> r.ok, err |-> r.err, out |-> r.out]
            /\ bcalls' = bcalls + 1
            /\ UNCHANGED <<inst, memory, live, wlog, launcher_vars, conv_vars,
                           wallet_vars, trip>>

\* a fresh instance: its linear memory is zeroed and nothing is allocated
InitMem ==
    /\ NoLauncher
    /\ conv = NoConv
    /\ inst \in [mem_alloc : BOOLEAN, memory : BOOLEAN]
    /\ memory = [i \in 1..MemSize |-> 0]
    /\ live = {}
    /\ wlog = <<>>
    /\ bcall = NoBridgeCall
    /\ bcalls = 0
    /\ NoWallet
    /\ trip = NoTrip

NextMem == MemWriteStore \/ MemWriteMutStore \/ MemReadStore

SpecMem == InitMem /\ [][NextMem]_vars

\* ------------------------------------------------------------------ SpecWallet

\* the entropy of the test from_bytes (src/wallet/src/mnemonic/mod.rs, 91-93)
TestEntropy ==
    <<234, 97, 165, 255, 4, 230, 146, 17, 184, 3, 203, 181, 91, 48, 185, 55>>

\* a vector of n bytes
EntropyOf(n, b) == [i \in 1..n |-> (b + i) % 256]

Entropies ==
    {EntropyOf(n, b) : n \in 0..MaxEntropyLen, b \in {0, 100, 250}}
    \cup {TestEntropy, SubSeq(TestEntropy, 1, 15)}

\* Mnemonic::from_bytes with the check of the length first
from_bytes_len_first(entropy) ==
    IF Len(entropy) # 16
    THEN [ok |-> FALSE, err |-> "FromBytesEntropyLenNotSame16", entropy |-> <<>>]
    ELSE [ok |-> TRUE, err |-> "None", entropy |-> entropy]

\* Mnemonic::from_bytes: Err(..) or Ok(Mnemonic { entropy })
from_bytes(entropy) ==
    IF entropy = <<>>
    THEN [ok |-> FALSE, err |-> "FromBytesEntropyEmpty", entropy |-> <<>>]
    ELSE IF Len(entropy) # 16
    THEN [ok |-> FALSE, err |-> "FromBytesEntropyLenNotSame16", entropy |-> <<>>]
    ELSE [ok |-> TRUE, err |-> "None", entropy |-> entropy]

\* Mnemonic::to_bytes: a clone of self.entropy
to_bytes(self) == [i \in 1..Len(self.entropy) |-> self.entropy[i]]

FromBytes ==
    /\ wallet.entropy \in Entropies
    /\ ~wallet.made
    /\ wallet' = [wallet EXCEPT !.made = TRUE, !.mnemonic = from_bytes(wallet.entropy)]
    /\ UNCHANGED <<launcher_vars, conv_vars, mem_vars, trip>>

ToBytes ==
    /\ wallet.made
    /\ wallet.mnemonic.ok
    /\ ~wallet.read
    /\ wallet' = [wallet EXCEPT !.read = TRUE, !.bytes = to_bytes(wallet.mnemonic)]
    /\ UNCHANGED <<launcher_vars, conv_vars, mem_vars, trip>>

InitWallet ==
    /\ NoLauncher
    /\ conv = NoConv
    /\ NoBridge
    /\ trip = NoTrip
    /\ wallet \in {[entropy |-> e, made |-> FALSE, mnemonic |-> NoMnemonic,
                     read |-> FALSE, bytes |-> <<>>] : e \in Entropies}

NextWallet == FromBytes \/ ToBytes

SpecWallet == InitWallet /\ [][NextWallet]_vars

\* ------------------------------------------------------------------ SpecTron

\* a str is modelled as the sequence of its characters

\* the alphabet of ::bitcoin::base58, in the order of the digits 0..57
BASE58_CHARS ==
    <<"1", "2", "3", "4", "5", "6", "7", "8", "9", "A", "B", "C", "D", "E", "F",
      "G", "H", "J", "K", "L", "M", "N", "P", "Q", "R", "S", "T", "U", "V", "W",
      "X", "Y", "Z", "a", "b", "c", "d", "e", "f", "g", "h", "i", "j", "k", "m",
      "n", "o", "p", "q", "r", "s", "t", "u", "v", "w", "x", "y", "z">>

Reverse(s) == [i \in 1..Len(s) |-> s[Len(s) + 1 - i]]

\* the number of elements at the head of s that are z
RECURSIVE Leading(_, _)
Leading(s, z) ==
    IF s = <<>> \/ Head(s) # z THEN 0 ELSE 1 + Leading(Tail(s), z)

\* num * m + carry on a number held as its digits to the base, lowest digit
\* first and without high zero digits
RECURSIVE MulAdd(_, _, _, _)
MulAdd(num, m, carry, base) ==
    IF num = <<>>
    THEN IF carry = 0 THEN <<>>
         ELSE <<carry % base>> \o MulAdd(<<>>, m, carry \div base, base)
    ELSE <<(Head(num) * m + carry) % base>>
         \o MulAdd(Tail(num), m, (Head(num) * m + carry) \div base, base)

\* the number whose digits to the base `from` are data (highest first), as its
\* digits to the base `to` (lowest first)
RECURSIVE Rebase(_, _, _, _)
Rebase(data, ret, from, to) ==
    IF data = <<>> THEN ret
    ELSE Rebase(Tail(data), MulAdd(ret, from, Head(data), to), from, to)

\* ::bitcoin::base58::encode: a "1" for every leading zero byte, then the digits
\* to the base 58 of the number the bytes are
bitcoin_base58_encode(data) ==
    LET digits == [i \in 1..Leading(data, 0) |-> 0] \o Reverse(Rebase(data, <<>>, 256, 58))
    IN  [i \in 1..Len(digits) |-> BASE58_CHARS[digits[i] + 1]]

\* ::bitcoin::base58::decode: Err for a character outside the alphabet; else a
\* zero byte for every leading "1", then the bytes of the number the digits are
bitcoin_base58_decode(data) ==
    IF \E i \in 1..Len(data) : \A d \in 1..Len(BASE58_CHARS) : BASE58_CHARS[d] # data[i]
    THEN [ok |-> FALSE, bytes |-> <<>>]
    ELSE LET digits == [i \in 1..Len(data) |->
                           (CHOOSE d \in 1..Len(BASE58_CHARS) :
                               BASE58_CHARS[d] = data[i]) - 1]
         IN  [ok |-> TRUE,
              bytes |-> [i \in 1..Leading(data, "1") |-> 0]
                        \o Reverse(Rebase(digits, <<>>, 58, 256))]

\* The first four bytes of Sha256(Sha256(data)).  The digest is not computed: a
\* fixed function of data stands for it, which gives four bytes that change with
\* every byte of data and with its length.
RECURSIVE Sha256Mix(_, _)
Sha256Mix(data, h) ==
    IF data = <<>> THEN h
    ELSE Sha256Mix(Tail(data), (h * 33 + Head(data) + 1) % 65521)

checksum(data) ==
    LET h == Sha256Mix(data, 5381)
    IN  <<h % 256, (h \div 256) % 256, (h * 7 + Len(data)) % 256, (h \div 16) % 256>>

\* WalletTron::base58_encode
base58_encode(address) == bitcoin_base58_encode(address \o checksum(address))

TronOk(payload) == [ok |-> TRUE, err |-> "None", payload |-> payload]

TronErr(err) == [ok |-> FALSE, err |-> err, payload |-> <<>>]

\* base58_decode returning the decoded bytes with their checksum
base58_decode_keeps_checksum(b58_address) ==
    LET decoded == bitcoin_base58_decode(b58_address)
    IN  IF ~decoded.ok THEN TronErr("TronBase58DecodeFail")
        ELSE IF Len(decoded.bytes) < 5 THEN TronErr("TronBase58DecodeTooShort")
        ELSE TronOk(decoded.bytes)

\* WalletTron::base58_decode
base58_decode(b58_address) ==
    LET decoded == bitcoin_base58_decode(b58_address)
    IN  IF ~decoded.ok THEN TronErr("TronBase58DecodeFail")
        ELSE IF Len(decoded.bytes) < 5 THEN TronErr("TronBase58DecodeTooShort")
        ELSE LET payload == SubSeq(decoded.bytes, 1, Len(decoded.bytes) - 4)
                 checksum_received == SubSeq(decoded.bytes, Len(decoded.bytes) - 3,
                                             Len(decoded.bytes))
             IN  IF checksum_received # checksum(payload)
                 THEN TronErr("TronBase58ChecksumMismatch")
                 ELSE TronOk(payload)

\* the bytes of the payloads handed to base58_encode
AddressBytes == {0, 1, 65, 255}

Addresses == SeqsUpTo(AddressBytes, MaxAddressLen)

\* a checksum that is not the checksum of the payload it follows
WrongChecksum(payload) ==
    [checksum(payload) EXCEPT ![4] = (@ + 1) % 256]

\* The strings handed to base58_decode: the strings of at most three characters
\* over four characters of the alphabet and one outside it, and the base58 forms
\* of a payload with its checksum, of a payload with a wrong checksum and of the
\* byte vectors of fewer than five bytes.
B58Strings ==
    SeqsUpTo({"1", "2", "T", "z", "0"}, 3)
    \cup {bitcoin_base58_encode(x \o checksum(x)) : x \in Addresses}
    \cup {bitcoin_base58_encode(x \o WrongChecksum(x)) : x \in Addresses}
    \cup {bitcoin_base58_encode(x) : x \in SeqsUpTo({0, 255}, 4)}

TronInputs ==
    {Val("address", x) : x \in Addresses} \cup {Val("b58", s) : s \in B58Strings}

Base58Encode ==
    Apply("base58_encode", "address", Val("b58", base58_encode(conv.val.v)))

\* Ok(payload) is kept as the payload, Err(e) as e
Base58Decode ==
    Apply("base58_decode", "b58",
          LET r == base58_decode(conv.val.v)
          IN  IF r.ok THEN Val("address", r.payload) ELSE Val("err", r.err))

InitTron ==
    /\ NoLauncher
    /\ NoBridge
    /\ NoWallet
    /\ trip = NoTrip
    /\ conv \in {[origin |-> x, val |-> x, applied |-> <<>>] : x \in TronInputs}

NextTron == Base58Encode \/ Base58Decode

SpecTron == InitTron /\ [][NextTron]_vars

\* ------------------------------------------------------------------ SpecEth

\* the bytes of a character in UTF-8: e_acute stands for U+00E9, the other
\* characters are ASCII
Utf8Len(c) == IF c = "e_acute" THEN 2 ELSE 1

\* str::len: the length of the string in bytes
RECURSIVE str_len(_)
str_len(s) == IF s = <<>> THEN 0 ELSE Utf8Len(Head(s)) + str_len(Tail(s))

\* str::starts_with
starts_with(s, pat) == Len(s) >= Len(pat) /\ SubSeq(s, 1, Len(pat)) = pat

\* WalletEth::validate_address
validate_address(s) ==
    IF str_len(s) # 42 THEN FALSE
    ELSE IF starts_with(s, <<"0", "x">>) THEN FALSE
    ELSE TRUE

\* the address of the test test_checksum_address (ethereum.rs 143)
EthTestAddress ==
    <<"0", "x", "9", "2", "6", "6", "4", "e", "d", "b", "d", "d", "c", "c",
      "a", "d", "0", "8", "d", "f", "6", "9", "1", "f", "4", "4", "0", "9",
      "9", "7", "3", "4", "4", "4", "e", "6", "6", "2", "6", "6", "e", "d">>

\* how the strings handed to validate_address begin
EthPrefixes ==
    {<<>>, <<"0", "x">>, <<"0", "X">>, <<"x", "0">>, <<"a", "b">>, <<"0">>,
     <<"0", "x", "e_acute">>}

\* a prefix filled up with the character a to n characters
Filled(p, n) == p \o [i \in 1..(n - Len(p)) |-> "a"]

EthStrings ==
    {Filled(p, n) : p \in EthPrefixes, n \in 0..MaxAddressChars} \cup {EthTestAddress}

ValidateAddress ==
    Apply("validate_address", "str", Val("bool", validate_address(conv.val.v)))

InitEth ==
    /\ NoLauncher
    /\ NoBridge
    /\ NoWallet
    /\ trip = NoTrip
    /\ conv \in {[origin |-> Val("str", x), val |-> Val("str", x), applied |-> <<>>] :
                    x \in EthStrings}

NextEth == ValidateAddress

SpecEth == InitEth /\ [][NextEth]_vars

\* ------------------------------------------------------------------ claims

\* the last call of run returned a VmRunResult
Returned == runs > 0 /\ result.status = "returned"

\* the last call of run invoked the guest and the invocation returned Err
CallFailed == runs > 0 /\ last.invoked /\ last.call_err

\* the panics of the u64 arithmetic on the gas values
GasPanics == {"attempt to subtract with overflow", "attempt to multiply with overflow"}

\* C1: on a launcher built with metering off, every result run reports has
\* gas_used = 0, whatever gas_priority, gas_limit and the outcome of the run.
C1_UnmeteredGasUsedZero ==
    (Returned /\ ~gas_used) => result.gas_used = 0

\* C2: when the invocation returns an engine error, the result is OutOfGas only
\* if the launcher is metered and no gas remains; in every other case (any trap
\* on a launcher without metering in particular) it is FunctionCallFail with
\* UnknownError, no data and gas_used = effective limit - remaining (on u64).
C2_CallErrResult ==
    (CallFailed /\ Returned) =>
        /\ result.program_code = "OutOfGas" => (gas_used /\ last.gas_left = 0)
        /\ ~(gas_used /\ last.gas_left = 0) =>
              result = [status |-> "returned", error |-> "FunctionCallFail",
                        program_code |-> "UnknownError", program_data |-> <<>>,
                        gas_used |-> (last.gas_limit_calc - last.gas_left
                                      + U64Modulus) % U64Modulus]

\* C3: on a metered launcher, run with gas_priority = 0 installs no limit, has
\* effective limit 0, never fails in computing the consumed gas and reports
\* gas_used = 0.
C3_PriorityZeroSkipsMetering ==
    (runs > 0 /\ gas_used /\ last.gas_priority = 0) =>
        /\ ~last.installed
        /\ last.gas_limit_calc = 0
        /\ ~(result.status = "panicked" /\ result.error \in GasPanics)
        /\ Returned => result.gas_used = 0

\* C4: on a metered launcher, every result of a run with gas_priority >= 1 has
\* gas_used <= gas_limit.
C4_GasUsedAtMostLimit ==
    (Returned /\ gas_used /\ last.gas_priority >= 1) =>
        result.gas_used <= last.gas_limit

C4_Witness ==
    /\ Returned /\ gas_used /\ last.gas_priority = 2 /\ last.gas_limit = 3
    /\ last.invoked /\ ~last.call_err
    /\ result.gas_used = 2

\* C5: on a metered launcher with gas_priority >= 1, an engine error with no gas
\* remaining gives FunctionCallOutOfGas, OutOfGas, no data and gas_used = the
\* caller's gas_limit (not gas_limit / gas_priority).
C5_OutOfGasReportsCallerLimit ==
    (CallFailed /\ gas_used /\ last.gas_priority >= 1 /\ last.gas_left = 0) =>
        result = [status |-> "returned", error |-> "FunctionCallOutOfGas",
                  program_code |-> "OutOfGas", program_data |-> <<>>,
                  gas_used |-> last.gas_limit]

C5_Witness ==
    /\ CallFailed /\ gas_used /\ last.gas_priority = 2 /\ last.gas_limit = 3
    /\ last.gas_left = 0 /\ exhausted
    /\ result.program_code = "OutOfGas" /\ result.gas_used = 3

\* C6: on a metered launcher with gas_priority >= 1, the limit on the instance
\* when the guest is invoked is the integer quotient gas_limit / gas_priority,
\* and a run whose invocation succeeds reports (limit - remaining) * gas_priority.
C6_InstalledLimitAndScaledGas ==
    (runs > 0 /\ gas_used /\ last.gas_priority >= 1) =>
        /\ last.installed
        /\ ~last.start_exhausted
        /\ last.start_points * last.gas_priority <= last.gas_limit
        /\ last.gas_limit < (last.start_points + 1) * last.gas_priority
        /\ (Returned /\ last.invoked /\ ~last.call_err) =>
              result.gas_used = (last.start_points - points) * last.gas_priority

\* run(2, 3, "example"): 1 point is installed, the guest consumes it, 2 is reported
C6_Witness ==
    /\ Returned /\ gas_used /\ last.gas_priority = 2 /\ last.gas_limit = 3
    /\ last.start_points = 1 /\ points = 0 /\ ~exhausted
    /\ last.invoked /\ ~last.call_err
    /\ result.program_code = "Ok" /\ result.gas_used = 2

\* C7: on a metered launcher every call of run resets the gas state before the
\* invocation: the points on the instance when the guest starts follow from the
\* call's own arguments, and an exhaustion flagged by an earlier run is cleared.
C7_GasStateResetEveryCall ==
    (runs > 0 /\ gas_used /\ last.invoked /\ last.prev_oog) =>
        /\ last.start_points = IF last.gas_priority = 0 THEN 0
                               ELSE last.gas_limit \div last.gas_priority
        /\ ~last.start_exhausted

\* C8: in every result run returns, non-empty program_data implies
\* program_code = Ok.
C8_DataOnlyWithOk ==
    Returned => (result.program_data # <<>> => result.program_code = "Ok")

C8_Witness ==
    /\ Returned
    /\ result.program_code = "Ok"
    /\ result.program_data = <<65>>

\* C9: when fn_name is not an exported function, run returns exactly
\* {FunctionExportFail, FnInvalidEntryPoint, no data, gas_used 0} and the guest is
\* not invoked, for every gas_priority, gas_limit and metering setting.
C9_MissingEntryResult ==
    (runs > 0 /\ last.fn_name \notin ModuleExports) =>
        /\ ~last.invoked
        /\ result = [status |-> "returned", error |-> "FunctionExportFail",
                     program_code |-> "FnInvalidEntryPoint",
                     program_data |-> <<>>, gas_used |-> 0]

\* C10: a constructor called with an empty opcode blob returns
\* Err(NewOpcodeBinaryEmpty), whatever its flags and cost function, and has
\* created no store, module or instance; there is no launcher.
C10_EmptyOpcodeRejected ==
    (launcher # "absent" /\ ctor = <<>>) =>
        /\ launcher = "err"
        /\ ctor_err.err = "NewOpcodeBinaryEmpty"
        /\ created = {}

C10_Witness ==
    /\ launcher = "err"
    /\ ctor = <<>>
    /\ ctor_err = [fn |-> "new_with_external", err |-> "NewOpcodeBinaryEmpty"]

\* the errors a constructor returns for what the engine refuses
EngineErrs == {"NewModuleInitBinaryFail", "NewModuleInitEncodedFail", "NewInstanceInitFail"}

\* C11: a constructor called with metering on and no cost function returns an
\* error value and no launcher; with metering off the cost function is ignored:
\* with or without one the constructor gives a launcher unless the engine refuses
\* the module or the instance.
C11_MissingCostFunctionRejected ==
    (launcher # "absent" /\ ctor # <<>>) =>
        /\ (args.gas_metering_used /\ args.gas_consumption = "None") =>
              launcher = "err"
        /\ ~args.gas_metering_used =>
              \/ launcher = "live"
              \/ launcher = "err" /\ ctor_err.err \in EngineErrs

\* the last call of run invoked the guest, which returned an i32 pointer at which
\* the Memory Bridge read a frame
FrameRead ==
    /\ runs > 0 /\ last.invoked /\ ~last.call_err
    /\ last.guest.value = "i32" /\ last.guest.read = "Ok"

\* C12: when the entry returns an i32 pointer to a readable frame whose first
\* byte is the tag of Ok, run returns error none, program_code Ok, program_data
\* the frame without its first byte and gas_used the consumed gas.
C12_OkFrameResult ==
    (FrameRead /\ last.guest.frame # <<>> /\ Head(last.guest.frame) = to_i32("Ok")) =>
        result = [status |-> "returned", error |-> "None", program_code |-> "Ok",
                  program_data |-> Tail(last.guest.frame),
                  gas_used |-> (last.gas_limit_calc - last.gas_left)
                               * last.gas_priority]

\* the host failed in the last call of run: the entry is missing, the engine
\* returned an error on the call, the return value is empty or no i32, or the
\* read of the return frame failed
HostFailed ==
    \/ last.fn_name \notin ModuleExports
    \/ last.invoked /\ last.call_err
    \/ last.invoked /\ ~last.call_err /\ last.guest.value # "i32"
    \/ last.invoked /\ ~last.call_err /\ last.guest.value = "i32"
          /\ last.guest.read # "Ok"

\* C13: the error field of a result of run is set if and only if the host failed
\* (entry missing, engine error on the call, empty or non-i32 return value, read
\* failure of the return frame); a code the guest reports in a frame leaves error
\* unset; and when error is set, program_code is FnInvalidEntryPoint, OutOfGas,
\* UndefinedErrPtr or UnknownError.
C13_ErrorIffHostFailed ==
    Returned =>
        /\ result.error # "None" <=> HostFailed
        /\ FrameRead => result.error = "None"
        /\ result.error # "None" =>
              result.program_code \in {"FnInvalidEntryPoint", "OutOfGas",
                                       "UndefinedErrPtr", "UnknownError"}

\* C14: for every ProgramCode c, from_arr_u8(to_vec_u8(c)) = c and
\* from_i32(to_i32(c)) = c.
C14_CodeRoundTrip ==
    /\ conv.applied = <<"to_vec_u8", "from_arr_u8">> => conv.val = conv.origin
    /\ conv.applied = <<"to_i32", "from_i32">> => conv.val = conv.origin

C14_Witness ==
    /\ conv.applied = <<"to_vec_u8", "from_arr_u8">>
    /\ conv.origin = Val("code", "UndefinedErrPtr")
    /\ conv.val = Val("code", "UndefinedErrPtr")

\* the tag of every variant, as the claims list them
ClaimTag ==
    [Ok |-> 0, FnInvalidEntryPoint |-> 1, FnInvalidIndex |-> 2, FnInvalidArgs |-> 3,
     UndefinedErrPtr |-> 4, UnknownError |-> 5, OutOfGas |-> 6, VmError |-> 7,
     BorshEncodeInvalidArg |-> 8, BorshDecodeInvalidArg |-> 9]

ClaimTags == {ClaimTag[c] : c \in DOMAIN ClaimTag}

\* C15: from_arr_u8 gives UnknownError for every one-byte sequence whose byte is
\* no tag, for the empty sequence and for every sequence of more than one byte;
\* from_i32 gives UnknownError for every integer that is no variant's number.
C15_UnknownBytesAndInts ==
    /\ (conv.applied = <<"from_arr_u8">>
         /\ ~(Len(conv.origin.v) = 1 /\ conv.origin.v[1] \in ClaimTags))
          => conv.val.v = "UnknownError"
    /\ (conv.applied = <<"from_i32">> /\ conv.origin.v \notin ClaimTags)
          => conv.val.v = "UnknownError"

C15_Witness ==
    /\ conv.applied = <<"from_arr_u8">>
    /\ conv.origin.v = <<0, 10>>
    /\ conv.val.v = "UnknownError"

\* C16: every variant has a tag of its own, 0..9 in declaration order, to_i32
\* gives it and to_vec_u8 gives the one-byte sequence that holds it.
C16_TagMapping ==
    /\ conv.applied = <<"to_i32">> =>
          /\ conv.val.v = ClaimTag[conv.origin.v]
          /\ \A c \in ProgramCodes \ {conv.origin.v} : to_i32(c) # conv.val.v
    /\ conv.applied = <<"to_vec_u8">> =>
          conv.val.v = <<ClaimTag[conv.origin.v]>>

C16_Witness ==
    /\ conv.applied = <<"to_i32">>
    /\ conv.origin.v = "UnknownError"
    /\ conv.val.v = 5

\* C17: encode(d) is the length of d as four little-endian bytes followed by d,
\* and decode_len of the first four bytes of encode(d) is the length of d.
C17_FrameCodec ==
    /\ conv.applied = <<"encode">> =>
          LET b == conv.val.v
              d == conv.origin.v
          IN  /\ Len(b) = Len(d) + 4
              /\ SubSeq(b, 5, Len(b)) = d
              /\ \A i \in 1..4 : b[i] \in 0..255
              /\ b[1] + 256 * (b[2] + 256 * (b[3] + 256 * b[4])) = Len(d)
    /\ conv.applied = <<"encode", "decode_len">> =>
          conv.val.v = Len(conv.origin.v)

\* a payload of 256 bytes: the length takes the second byte of the prefix
C17_Witness ==
    /\ conv.applied = <<"encode", "decode_len">>
    /\ Len(conv.origin.v) = 256
    /\ conv.val.v = 256

\* C18: a payload written through either write of the Memory Bridge is what a
\* later read at the returned pointer returns, as long as every region the
\* guest's allocator returned had the requested size and shared no byte with a
\* live region.
C18_WriteReadRoundTrip ==
    (bcall.op = "mem_read_store"
     /\ \A i \in 1..Len(wlog) : wlog[i].region) =>
        \A i \in 1..Len(wlog) :
            wlog[i].ptr = bcall.ptr => (bcall.ok /\ bcall.out = wlog[i].data)

\* C20: Mnemonic::from_bytes returns Ok exactly for the vectors of 16 bytes,
\* Err(FromBytesEntropyEmpty) for the empty vector and
\* Err(FromBytesEntropyLenNotSame16) for every other length; to_bytes of the
\* Mnemonic it returns is the entropy it was given.
C20_FromBytesLength ==
    wallet.made =>
        /\ wallet.mnemonic.ok <=> Len(wallet.entropy) = 16
        /\ Len(wallet.entropy) = 0 => wallet.mnemonic.err = "FromBytesEntropyEmpty"
        /\ Len(wallet.entropy) \notin {0, 16} =>
              wallet.mnemonic.err = "FromBytesEntropyLenNotSame16"
        /\ wallet.read => wallet.bytes = wallet.entropy

C20_Witness ==
    /\ wallet.made
    /\ wallet.read
    /\ wallet.entropy = TestEntropy
    /\ wallet.bytes = TestEntropy

C21_Base58CheckRoundTrip ==
    /\ (conv.applied = <<"base58_encode", "base58_decode">> /\ conv.origin.v # <<>>)
          => conv.val = conv.origin
    /\ conv.applied = <<"base58_decode", "base58_encode">> => conv.val = conv.origin
    /\ conv.applied = <<"base58_decode">> =>
          LET d == bitcoin_base58_decode(conv.origin.v)
              n == Len(d.bytes)
          IN  /\ (d.ok /\ n < 5) => conv.val = Val("err", "TronBase58DecodeTooShort")
              /\ (d.ok /\ n >= 5
                  /\ SubSeq(d.bytes, n - 3, n) # checksum(SubSeq(d.bytes, 1, n - 4)))
                    => conv.val = Val("err", "TronBase58ChecksumMismatch")

\* a string with a leading "1" (a payload with a leading zero byte) is accepted
\* and encoded back to itself
C21_Witness ==
    /\ conv.applied = <<"base58_decode", "base58_encode">>
    /\ conv.origin.kind = "b58"
    /\ Head(conv.origin.v) = "1"
    /\ Len(conv.origin.v) > 5
    /\ conv.val = conv.origin

\* the two writes of the Memory Bridge
BridgeWrites == {"mem_write_store", "mem_write_mut_store"}

\* C22: a write of a payload of n bytes through either overload asks mem_alloc
\* for n + 4 bytes, the length of the frame, and a write that returns Ok has
\* stored the frame at the pointer mem_alloc answered.
C22_AllocFrameSize ==
    (bcall.op \in BridgeWrites /\ inst.mem_alloc) =>
        /\ bcall.size = Len(bcall.data) + 4
        /\ bcall.ok =>
              /\ bcall.ptr = bcall.alloc_ptr
              /\ SubSeq(memory, bcall.ptr + 1, bcall.ptr + 4 + Len(bcall.data))
                    = Memory_encode(bcall.data)

\* C23: a write fails with MemoryAllocGetFnFail when the export mem_alloc is
\* absent, with MemoryAllocCallFnFail when the call traps and with
\* MemoryAllocPtrEmpty when mem_alloc answers a value that is no i32 or the
\* pointer 0; so no write returns the pointer 0 as success.
C23_AllocErrors ==
    bcall.op \in BridgeWrites =>
        /\ ~inst.mem_alloc => (~bcall.ok /\ bcall.err = "MemoryAllocGetFnFail")
        /\ (inst.mem_alloc /\ bcall.alloc = "trap") =>
              (~bcall.ok /\ bcall.err = "MemoryAllocCallFnFail")
        /\ (inst.mem_alloc /\ bcall.alloc = "f64") =>
              (~bcall.ok /\ bcall.err = "MemoryAllocPtrEmpty")
        /\ (inst.mem_alloc /\ bcall.alloc = "i32" /\ bcall.alloc_ptr = 0) =>
              (~bcall.ok /\ bcall.err = "MemoryAllocPtrEmpty")
        /\ bcall.ok => bcall.ptr # 0

\* the number the four bytes of the linear memory at ptr are, lowest byte first
LengthAt(ptr) ==
    memory[ptr + 1] + 256 * (memory[ptr + 2] + 256 * (memory[ptr + 3]
                                                      + 256 * memory[ptr + 4]))

\* C24: a read at p fails with MemoryReadGetMemoryFail when the export memory is
\* missing, with MemoryReadDataLenFail when the four bytes at p are not all
\* inside the memory, with MemoryReadDataFail when the L bytes at p + 4 are not,
\* L being the number in the four bytes; else it returns exactly these L bytes;
\* a failed read returns no data, and no read changes the memory.
C24_ReadContract ==
    /\ [](bcall.op = "mem_read_store" =>
            LET p == bcall.ptr
            IN  /\ ~bcall.ok => bcall.out = <<>>
                /\ ~inst.memory => bcall.err = "MemoryReadGetMemoryFail"
                /\ (inst.memory /\ p + 4 > MemSize) =>
                      bcall.err = "MemoryReadDataLenFail"
                /\ (inst.memory /\ p + 4 <= MemSize
                    /\ p + 4 + LengthAt(p) > MemSize) =>
                      bcall.err = "MemoryReadDataFail"
                /\ (inst.memory /\ p + 4 <= MemSize
                    /\ p + 4 + LengthAt(p) <= MemSize) =>
                      /\ bcall.ok
                      /\ Len(bcall.out) = LengthAt(p)
                      /\ \A i \in 1..LengthAt(p) : bcall.out[i] = memory[p + 4 + i])
    /\ [][bcall'.op = "mem_read_store" => (memory' = memory /\ live' = live)]_vars

\* a read of a frame of two bytes that a write has stored
C24_Witness ==
    /\ bcall.op = "mem_read_store"
    /\ bcall.ok
    /\ bcall.ptr = 1
    /\ bcall.out = <<65, 66>>

\* the gas the last call of run consumed, as run reports it
ConsumedGas == (last.gas_limit_calc - last.gas_left) * last.gas_priority

\* C25: when the entry returns a readable frame whose first byte is not the tag
\* of Ok, run returns error none, no data and the consumed gas, with the variant
\* of t as program_code for a frame of the one byte t that is a tag, and
\* UnknownError for every frame of more than one byte.
C25_NonOkFrameReparsed ==
    (FrameRead /\ last.guest.frame # <<>>
     /\ Head(last.guest.frame) # ClaimTag["Ok"]) =>
        LET frame == last.guest.frame
        IN  /\ result.status = "returned"
            /\ result.error = "None"
            /\ result.program_data = <<>>
            /\ result.gas_used = ConsumedGas
            /\ (Len(frame) = 1 /\ frame[1] \in ClaimTags) =>
                  ClaimTag[result.program_code] = frame[1]
            /\ Len(frame) > 1 => result.program_code = "UnknownError"

\* C26: after an invocation that succeeded, an empty return value gives
\* program_code UnknownError, a first return value that is no i32 gives
\* UndefinedErrPtr, and a failed read at the returned pointer gives error
\* RetProgramMemReadFail with UndefinedErrPtr and no data; in the three cases
\* gas_used is the consumed gas.
C26_ReturnValueFailures ==
    (runs > 0 /\ last.invoked /\ ~last.call_err) =>
        /\ last.guest.value = "empty" =>
              /\ result.status = "returned"
              /\ result.program_code = "UnknownError"
              /\ result.gas_used = ConsumedGas
        /\ last.guest.value = "f64" =>
              /\ result.status = "returned"
              /\ result.program_code = "UndefinedErrPtr"
              /\ result.gas_used = ConsumedGas
        /\ (last.guest.value = "i32" /\ last.guest.read # "Ok") =>
              result = [status |-> "returned", error |-> "RetProgramMemReadFail",
                        program_code |-> "UndefinedErrPtr", program_data |-> <<>>,
                        gas_used |-> ConsumedGas]

\* C27: run returns a result, and does not panic, whenever the entry returns a
\* pointer at which the frame read succeeds, a frame with the length prefix 0
\* (an empty payload, no code byte) included.
C27_RunReturnsForEveryFrame ==
    FrameRead => result.status = "returned"

\* C28: validate_address returns true for every string of 42 characters that
\* starts with "0x", and false for every string of another length and for every
\* string that does not start with "0x".
C28_ValidateAddress ==
    conv.applied = <<"validate_address">> =>
        conv.val.v = (Len(conv.origin.v) = 42
                      /\ SubSeq(conv.origin.v, 1, 2) = <<"0", "x">>)

====
